---------------------------- MODULE Spec2Model ----------------------------
(***************************************************************************)
(* A model of lwobj's Wavefront loader, src/obj.rs: ObjData::new,          *)
(* ObjData::load and the helper parse.                                     *)
(*                                                                         *)
(* Text is modelled character by character: a string is a sequence of      *)
(* one-character strings, so that tokenisation (split_whitespace), the     *)
(* splitting of a face token on '/' and the number parsers are computed    *)
(* from the characters as the code computes them.                          *)
(*                                                                         *)
(* One iteration of the `while` loop of load is two steps: the call of     *)
(* read_line in the loop condition (ReadLine, ReadEof, ReadIoError) and    *)
(* the loop body, one action per arm of the `match` (Comment, ArmV, ...).  *)
(***************************************************************************)
EXTENDS Integers, Sequences, FiniteSets

VARIABLES
    pc,        \* "read": at the loop condition; "body": a line is in buf; "done": load returned
    consumed,  \* the lines the line source has handed out so far, in order
    srcEnd,    \* TRUE once the source handed out an unterminated (hence last) line
    lastRead,  \* what the last call of read_line returned: "Line", "Eof", "Err" ("None" before the first)
    buf,       \* load's local `buf`
    nb,        \* load's local `nb`
    data,      \* load's local `data`, an ObjData
    result     \* what load returned: [tag |-> "None"] while it is running

vars == <<pc, consumed, srcEnd, lastRead, buf, nb, data, result>>

-----------------------------------------------------------------------------
(* Bounds *)

MaxLines == 3     \* lines the source hands out in one run
MaxArgs == 5      \* longest argument list of the generated v / vn / vt lines

-----------------------------------------------------------------------------
(* Option and Result values *)

None == [some |-> FALSE]
Some(x) == [some |-> TRUE, val |-> x]

Ok(x) == [ok |-> TRUE, val |-> x]
Err(e) == [ok |-> FALSE, err |-> e]

\* enum LoadingError
InvalidLine(n) == [tag |-> "InvalidLine", nb |-> n]
WrongNumberOfArguments(n) == [tag |-> "WrongNumberOfArguments", nb |-> n]
Parse(n) == [tag |-> "Parse", nb |-> n]
Io == [tag |-> "Io"]

-----------------------------------------------------------------------------
(* std: str::split_whitespace, str::split, str::parse *)

\* char::is_whitespace, on the ASCII characters of the model's alphabet
Whitespace == {" ", "\t", "\n", "\r"}

RECURSIVE SplitWhitespaceFrom(_, _, _, _)
SplitWhitespaceFrom(s, i, cur, acc) ==
    IF i > Len(s)
    THEN IF cur = <<>> THEN acc ELSE Append(acc, cur)
    ELSE IF s[i] \in Whitespace
         THEN SplitWhitespaceFrom(s, i + 1, <<>>,
                                  IF cur = <<>> THEN acc ELSE Append(acc, cur))
         ELSE SplitWhitespaceFrom(s, i + 1, Append(cur, s[i]), acc)

\* s.split_whitespace(), collected: the maximal runs of non-whitespace
SplitWhitespace(s) == SplitWhitespaceFrom(s, 1, <<>>, <<>>)

RECURSIVE SplitFrom(_, _, _, _, _)
SplitFrom(s, sep, i, cur, acc) ==
    IF i > Len(s)
    THEN Append(acc, cur)
    ELSE IF s[i] = sep
         THEN SplitFrom(s, sep, i + 1, <<>>, Append(acc, cur))
         ELSE SplitFrom(s, sep, i + 1, Append(cur, s[i]), acc)

\* s.split(sep).collect(): one field more than there are separators,
\* empty fields included
Split(s, sep) == SplitFrom(s, sep, 1, <<>>, <<>>)

Digits == {"0", "1", "2", "3", "4", "5", "6", "7", "8", "9"}

DigitVal(c) ==
    CASE c = "0" -> 0 [] c = "1" -> 1 [] c = "2" -> 2 [] c = "3" -> 3
      [] c = "4" -> 4 [] c = "5" -> 5 [] c = "6" -> 6 [] c = "7" -> 7
      [] c = "8" -> 8 [] c = "9" -> 9

AllDigits(s) == \A i \in 1..Len(s) : s[i] \in Digits

RECURSIVE DigitsVal(_, _)
DigitsVal(s, acc) ==
    IF s = <<>> THEN acc ELSE DigitsVal(Tail(s), 10 * acc + DigitVal(Head(s)))

\* s.parse::<usize>(): an optional '+', then one or more decimal digits.
\* (Overflow of usize needs 20 digits and is outside the input bounds.)
ParseUsize(s) ==
    LET body == IF s # <<>> /\ Head(s) = "+" THEN Tail(s) ELSE s
    IN  IF body # <<>> /\ AllDigits(body)
        THEN Ok(DigitsVal(body, 0))
        ELSE Err("ParseIntError")

\* An f32 is kept as the exact decimal m * 10^(-e), normalised so that equal
\* values have equal representations (1, 1.0 and 1. are all F32(1, 0)).
RECURSIVE F32(_, _)
F32(m, e) ==
    IF e > 0 /\ m % 10 = 0 THEN F32(m \div 10, e - 1) ELSE [m |-> m, e |-> e]

IndexOf(s, c) ==
    IF \E i \in 1..Len(s) : s[i] = c
    THEN CHOOSE i \in 1..Len(s) : s[i] = c /\ \A j \in 1..(i - 1) : s[j] # c
    ELSE 0

\* s.parse::<f32>() on decimal literals: an optional sign, digits with an
\* optional '.', at least one digit in all. (Exponents, "inf" and "NaN" are
\* outside the model's inputs.)
ParseF32(s) ==
    LET signed == s # <<>> /\ Head(s) \in {"+", "-"}
        body == IF signed THEN Tail(s) ELSE s
        dot == IndexOf(body, ".")
        int == IF dot = 0 THEN body ELSE SubSeq(body, 1, dot - 1)
        frac == IF dot = 0 THEN <<>> ELSE SubSeq(body, dot + 1, Len(body))
        mag == DigitsVal(int \o frac, 0)
    IN  IF AllDigits(int) /\ AllDigits(frac) /\ int \o frac # <<>>
        THEN Ok(F32(IF signed /\ Head(s) = "-" THEN 0 - mag ELSE mag, Len(frac)))
        ELSE Err("ParseFloatError")

-----------------------------------------------------------------------------
(* fn parse<T : FromStr>(it, nb), at T = f32 *)

RECURSIVE parseFrom(_, _, _)
parseFrom(it, nb_, vec) ==
    IF it = <<>>
    THEN Ok(vec)
    ELSE LET r == ParseF32(Head(it))
         IN  IF r.ok THEN parseFrom(Tail(it), nb_, Append(vec, r.val))
                     ELSE Err(Parse(nb_))

parse(it, nb_) == parseFrom(it, nb_, <<>>)

-----------------------------------------------------------------------------
(* The input: the lines a line source can hand out *)

Sp == <<" ">>
Nl == <<"\n">>

RECURSIVE Join(_)
\* the tokens separated by single spaces
Join(toks) ==
    IF toks = <<>> THEN <<>>
    ELSE IF Len(toks) = 1 THEN toks[1]
    ELSE toks[1] \o Sp \o Join(Tail(toks))

\* a terminated line made of the given tokens
Ln(toks) == Join(toks) \o Nl

DigitChar(i) ==
    CASE i = 0 -> "0" [] i = 1 -> "1" [] i = 2 -> "2" [] i = 3 -> "3"
      [] i = 4 -> "4" [] i = 5 -> "5" [] i = 6 -> "6" [] i = 7 -> "7"
      [] i = 8 -> "8" [] i = 9 -> "9"

\* the i-th float argument of a generated line: i, -i or i.5 in turn
FloatArg(i) ==
    CASE i % 3 = 1 -> <<DigitChar(i % 10)>>
      [] i % 3 = 2 -> <<"-", DigitChar(i % 10)>>
      [] i % 3 = 0 -> <<DigitChar(i % 10), ".", "5">>

FloatKeywords == {<<"v">>, <<"v", "n">>, <<"v", "t">>}

\* `kw a1 ... an` for every float keyword and every n in 0..MaxArgs
FloatLines ==
    {Ln(<<kw>> \o [i \in 1..n |-> FloatArg(i)]) : kw \in FloatKeywords, n \in 0..MaxArgs}

\* lines that load accepts
GoodLines ==
    { <<" ", " ", "v", "\t", "4", " ", " ", "5", " ", "6", "\r", "\n">>,
      <<"v", "n", " ", "0", " ", "+", "1", ".", " ", ".", "0">>,          \* no terminator
      Ln(<<<<"f">>, <<"2", "/", "/", "1">>, <<"4", "/", "/", "1">>, <<"1", "/", "/", "1">>>>),
      Ln(<<<<"f">>, <<"1", "/", "2", "/", "3">>>>),
      Ln(<<<<"f">>>>),
      Ln(<<<<"f">>, <<"1", "/", "a", "/">>, <<"3", "/", "/", "-", "1">>>>),
      Ln(<<<<"#">>, <<"v">>, <<"1">>>>),
      Ln(<<<<"#", "g">>>>),
      Ln(<<<<"s">>, <<"o", "f", "f">>>>),
      Ln(<<<<"o">>, <<"a", "/", "b">>, <<"1">>>>) }

\* lines that load rejects
BadLines ==
    { Nl,
      <<" ", "\n">>,
      Ln(<<<<>>, <<"#">>, <<"c">>>>),                                     \* " # c"
      Ln(<<<<"g">>, <<"x">>>>),
      Ln(<<<<"V">>, <<"1">>, <<"2">>, <<"3">>>>),
      Ln(<<<<"v">>, <<"1">>, <<"a">>, <<"3">>>>),
      Ln(<<<<"v">>, <<"a">>>>),
      Ln(<<<<"v", "n">>, <<"0">>, <<"1", "/", "2">>, <<"0">>>>),
      Ln(<<<<"v", "t">>, <<"1">>, <<"2">>, <<"3">>, <<"-">>>>),
      Ln(<<<<"f">>, <<"1">>>>),
      Ln(<<<<"f">>, <<"1", "/", "2">>>>),
      Ln(<<<<"f">>, <<"1", "/", "2", "/", "3", "/", "4">>>>),
      Ln(<<<<"f">>, <<"a", "/", "1", "/", "1">>>>),
      Ln(<<<<"f">>, <<"/", "1", "/", "1">>>>),
      Ln(<<<<"f">>, <<"-", "1", "/", "/", "1">>>>),
      Ln(<<<<"f">>, <<"1", "/", "/", "1">>, <<"2">>>>),
      Ln(<<<<"f">>, <<"a", "/", "1", "/", "1">>, <<"1", "/", "2">>>>),
      Ln(<<<<"f">>, <<"1">>, <<"a", "/", "1", "/", "1">>>>) }

Lines == FloatLines \cup GoodLines \cup BadLines

-----------------------------------------------------------------------------
(* impl ObjData *)

\* ObjData::new()
new == [vertices |-> <<>>, normals |-> <<>>, texcoords |-> <<>>, faces |-> <<>>]

\* Push at the front: vec.insert(0, x)
PushFront(vec, x) == <<x>> \o vec

\* Vec::push
Push(vec, x) == Append(vec, x)

\* IsComment by the first token instead of the first character
IsCommentToken(b) == SplitWhitespace(b) # <<>> /\ SplitWhitespace(b)[1] = <<"#">>

\* buf.chars().next().unwrap() == '#'; buf is never empty here, read_line
\* having returned a positive count
IsComment(b) == b[1] = "#"

\* let mut iter = buf.split_whitespace(); iter.next()
Keyword(b) ==
    LET toks == SplitWhitespace(b)
    IN  IF toks = <<>> THEN None ELSE Some(toks[1])

\* what is left of iter after the keyword was taken
Args(b) ==
    LET toks == SplitWhitespace(b)
    IN  IF toks = <<>> THEN <<>> ELSE Tail(toks)

\* VertexOf with w defaulting to 0 and a short list padded instead of refused
VertexOfPadded(args, nb_) ==
    IF Len(args) = 4 THEN Ok(<<args[1], args[2], args[3], args[4]>>)
    ELSE IF Len(args) = 3 THEN Ok(<<args[1], args[2], args[3], F32(0, 0)>>)
    ELSE IF Len(args) = 2 THEN Ok(<<args[1], args[2], F32(0, 0), F32(0, 0)>>)
    ELSE Err(WrongNumberOfArguments(nb_))

\* the `v` arm after parse: 4 arguments, 3 arguments, or an error
VertexOf(args, nb_) ==
    IF Len(args) = 4 THEN Ok(<<args[1], args[2], args[3], args[4]>>)
    ELSE IF Len(args) = 3 THEN Ok(<<args[1], args[2], args[3], F32(1, 0)>>)
    ELSE Err(WrongNumberOfArguments(nb_))

\* the `vn` arm after parse
NormalOf(args, nb_) ==
    IF Len(args) = 3 THEN Ok(<<args[1], args[2], args[3]>>)
    ELSE Err(WrongNumberOfArguments(nb_))

\* the `vt` arm after parse
TexcoordOf(args, nb_) ==
    IF Len(args) = 3 THEN Ok(<<args[1], args[2], args[3]>>)
    ELSE IF Len(args) = 2 THEN Ok(<<args[1], args[2], F32(0, 0)>>)
    ELSE Err(WrongNumberOfArguments(nb_))

\* .ok() of a Result
OkOf(r) == IF r.ok THEN Some(r.val) ELSE None

\* VertexRef taking the short forms `v` and `v/vt`: only more than 3 fields
\* are refused, a missing field is None
VertexRefShortForms(arg, nb_) ==
    LET index == Split(arg, "/")
    IN  IF Len(index) > 3 THEN Err(WrongNumberOfArguments(nb_))
        ELSE LET v == ParseUsize(index[1])
             IN  IF ~v.ok THEN Err(Parse(nb_))
                 ELSE Ok(<<v.val,
                           IF Len(index) >= 2 THEN OkOf(ParseUsize(index[2])) ELSE None,
                           IF Len(index) >= 3 THEN OkOf(ParseUsize(index[3])) ELSE None>>)

\* VertexRef with a non-empty optional field that is no number refused
VertexRefStrict(arg, nb_) ==
    LET index == Split(arg, "/")
        bad(f) == f # <<>> /\ ~ParseUsize(f).ok
    IN  IF Len(index) # 3 THEN Err(WrongNumberOfArguments(nb_))
        ELSE LET v == ParseUsize(index[1])
             IN  IF ~v.ok \/ bad(index[2]) \/ bad(index[3]) THEN Err(Parse(nb_))
                 ELSE Ok(<<v.val, OkOf(ParseUsize(index[2])), OkOf(ParseUsize(index[3]))>>)

\* the body of `for arg in iter` in the `f` arm: one vertex reference
VertexRef(arg, nb_) ==
    LET index == Split(arg, "/")
    IN  IF Len(index) # 3 THEN Err(WrongNumberOfArguments(nb_))
        ELSE LET v == ParseUsize(index[1])
             IN  IF ~v.ok THEN Err(Parse(nb_))
                 ELSE Ok(<<v.val, OkOf(ParseUsize(index[2])), OkOf(ParseUsize(index[3]))>>)

RECURSIVE FaceFrom(_, _, _)
FaceFrom(it, nb_, vec) ==
    IF it = <<>>
    THEN Ok(vec)
    ELSE LET r == VertexRef(Head(it), nb_)
         IN  IF r.ok THEN FaceFrom(Tail(it), nb_, Push(vec, r.val)) ELSE r

\* Face with a polygon of fewer than 3 corners refused
FaceOfThreeOrMore(it, nb_) ==
    IF Len(it) < 3 THEN Err(WrongNumberOfArguments(nb_)) ELSE FaceFrom(it, nb_, <<>>)

\* the `for arg in iter` loop of the `f` arm: the face record, or the error
\* of the first token that has one
Face(it, nb_) == FaceFrom(it, nb_, <<>>)

\* `return Err(e)` / `return Ok(data)`
Return(r) ==
    /\ pc' = "done"
    /\ result' = r
    /\ UNCHANGED <<consumed, srcEnd, buf, nb, data>>

\* NextLine without buf.clear(): the next line is appended to this one
NextLineNoClear(d) ==
    /\ data' = d
    /\ nb' = nb + 1
    /\ buf' = buf
    /\ pc' = "read"
    /\ UNCHANGED <<consumed, srcEnd, result>>

\* the end of the loop body: nb += 1; buf.clear(); back to the loop condition
NextLine(d) ==
    /\ data' = d
    /\ nb' = nb + 1
    /\ buf' = <<>>
    /\ pc' = "read"
    /\ UNCHANGED <<consumed, srcEnd, result>>

-----------------------------------------------------------------------------
(* ObjData::load *)

Init ==
    /\ pc = "read"
    /\ consumed = <<>>
    /\ srcEnd = FALSE
    /\ lastRead = "None"
    /\ buf = <<>>
    /\ nb = 0
    /\ data = new
    /\ result = [tag |-> "None"]

\* input.read_line(&mut buf) returns n > 0: one more line is appended to buf
ReadLine ==
    /\ pc = "read"
    /\ ~srcEnd
    /\ Len(consumed) < MaxLines
    /\ \E line \in Lines :
          /\ buf' = buf \o line
          /\ consumed' = Append(consumed, line)
          /\ srcEnd' = (line[Len(line)] # "\n")
    /\ lastRead' = "Line"
    /\ pc' = "body"
    /\ UNCHANGED <<nb, data, result>>

\* read_line returns 0: end of input, the loop ends and load returns Ok(data)
ReadEof ==
    /\ pc = "read"
    /\ lastRead' = "Eof"
    /\ Return([tag |-> "Ok", data |-> data])

\* ReadIoError with the failure taken for the end of input (unwrap_or(0))
ReadIoErrorAsEof ==
    /\ pc = "read"
    /\ lastRead' = "Err"
    /\ Return([tag |-> "Ok", data |-> data])

\* read_line returns Err: try! returns it converted by From<io::Error>
ReadIoError ==
    /\ pc = "read"
    /\ lastRead' = "Err"
    /\ Return(Io)

\* Comment with `nb += 1` inside the `if`: a comment line is not counted
CommentNotCounted ==
    /\ pc = "body"
    /\ IsComment(buf)
    /\ data' = data
    /\ buf' = <<>>
    /\ pc' = "read"
    /\ UNCHANGED <<consumed, srcEnd, lastRead, nb, result>>

\* a line whose first character is '#': the body of the `if` is skipped
Comment ==
    /\ pc = "body"
    /\ IsComment(buf)
    /\ UNCHANGED lastRead
    /\ NextLine(data)

ArmV ==
    /\ pc = "body"
    /\ ~IsComment(buf)
    /\ UNCHANGED lastRead
    /\ Keyword(buf) = Some(<<"v">>)
    /\ LET args == parse(Args(buf), nb)
       IN  IF ~args.ok THEN Return(args.err)
           ELSE LET r == VertexOf(args.val, nb)
                IN  IF r.ok
                    THEN NextLine([data EXCEPT !.vertices = Push(@, r.val)])
                    ELSE Return(r.err)

ArmVn ==
    /\ pc = "body"
    /\ ~IsComment(buf)
    /\ UNCHANGED lastRead
    /\ Keyword(buf) = Some(<<"v", "n">>)
    /\ LET args == parse(Args(buf), nb)
       IN  IF ~args.ok THEN Return(args.err)
           ELSE LET r == NormalOf(args.val, nb)
                IN  IF r.ok
                    THEN NextLine([data EXCEPT !.normals = Push(@, r.val)])
                    ELSE Return(r.err)

ArmVt ==
    /\ pc = "body"
    /\ ~IsComment(buf)
    /\ UNCHANGED lastRead
    /\ Keyword(buf) = Some(<<"v", "t">>)
    /\ LET args == parse(Args(buf), nb)
       IN  IF ~args.ok THEN Return(args.err)
           ELSE LET r == TexcoordOf(args.val, nb)
                IN  IF r.ok
                    THEN NextLine([data EXCEPT !.texcoords = Push(@, r.val)])
                    ELSE Return(r.err)

ArmS ==
    /\ pc = "body"
    /\ ~IsComment(buf)
    /\ UNCHANGED lastRead
    /\ Keyword(buf) = Some(<<"s">>)
    /\ NextLine(data)

ArmF ==
    /\ pc = "body"
    /\ ~IsComment(buf)
    /\ UNCHANGED lastRead
    /\ Keyword(buf) = Some(<<"f">>)
    /\ LET r == Face(Args(buf), nb)
       IN  IF r.ok
           THEN NextLine([data EXCEPT !.faces = Push(@, r.val)])
           ELSE Return(r.err)

ArmO ==
    /\ pc = "body"
    /\ ~IsComment(buf)
    /\ UNCHANGED lastRead
    /\ Keyword(buf) = Some(<<"o">>)
    /\ NextLine(data)

Keywords == {<<"v">>, <<"v", "n">>, <<"v", "t">>, <<"s">>, <<"f">>, <<"o">>}

\* ArmOther with the unknown line skipped instead of refused
ArmOtherSkipped ==
    /\ pc = "body"
    /\ ~IsComment(buf)
    /\ UNCHANGED lastRead
    /\ Keyword(buf) \notin {Some(k) : k \in Keywords}
    /\ NextLine(data)

\* the `_` arm: any other first token, or none
ArmOther ==
    /\ pc = "body"
    /\ ~IsComment(buf)
    /\ UNCHANGED lastRead
    /\ Keyword(buf) \notin {Some(k) : k \in Keywords}
    /\ Return(InvalidLine(nb))

Next ==
    \/ ReadLine
    \/ ReadEof
    \/ ReadIoError
    \/ Comment
    \/ ArmV
    \/ ArmVn
    \/ ArmVt
    \/ ArmS
    \/ ArmF
    \/ ArmO
    \/ ArmOther

Spec == Init /\ [][Next]_vars

-----------------------------------------------------------------------------
(* Vocabulary of the properties *)

LineErrors == {"InvalidLine", "WrongNumberOfArguments", "Parse"}

Failed == result.tag \in LineErrors \cup {"Io"}

\* the kind of a line: "#" for a comment, else its first token (<<>> if none)
KindOf(line) ==
    IF line[1] = "#" THEN <<"#">>
    ELSE LET k == Keyword(line) IN IF k.some THEN k.val ELSE <<>>

\* the consumed lines of one kind, in input order
OfKind(kw) == SelectSeq(consumed, LAMBDA l : KindOf(l) = kw)

\* the arguments of a line as floats, <<>> standing for one that is no float
FloatsOf(line) ==
    [i \in 1..Len(Args(line)) |->
        LET r == ParseF32(Args(line)[i]) IN IF r.ok THEN r.val ELSE <<>>]

AllFloats(line) == \A i \in 1..Len(Args(line)) : ParseF32(Args(line)[i]).ok

\* the entry a line of each kind stands for (<<>> if it stands for none)
EntryV(line) ==
    LET a == FloatsOf(line)
    IN  IF Len(a) = 4 THEN a
        ELSE IF Len(a) = 3 THEN Append(a, F32(1, 0)) ELSE <<>>

EntryVn(line) == LET a == FloatsOf(line) IN IF Len(a) = 3 THEN a ELSE <<>>

EntryVt(line) ==
    LET a == FloatsOf(line)
    IN  IF Len(a) = 3 THEN a
        ELSE IF Len(a) = 2 THEN Append(a, F32(0, 0)) ELSE <<>>

\* an optional index field: the number it spells, or None
OptIndex(field) == IF ParseUsize(field).ok THEN Some(ParseUsize(field).val) ELSE None

FieldCount(tok) == Len(Split(tok, "/"))

\* a face token is valid: three fields, the first one a number
ValidRef(tok) == FieldCount(tok) = 3 /\ ParseUsize(Split(tok, "/")[1]).ok

\* the reference a valid face token spells
RefOf(tok) ==
    LET fs == Split(tok, "/")
    IN  <<ParseUsize(fs[1]).val, OptIndex(fs[2]), OptIndex(fs[3])>>

EntryF(line) ==
    [i \in 1..Len(Args(line)) |->
        IF ValidRef(Args(line)[i]) THEN RefOf(Args(line)[i]) ELSE <<>>]

LastLine == consumed[Len(consumed)]

-----------------------------------------------------------------------------
(* C1 *)

\* C1: when load succeeds, each of the four sequences of the returned
\* document has exactly one entry per consumed line of its kind, the k-th
\* entry being the one the k-th such line stands for, and every line the
\* source handed out has been processed.
C1_OneEntryPerLineInOrder ==
    result.tag = "Ok" =>
        /\ nb = Len(consumed)
        /\ result.data.vertices =
              [k \in 1..Len(OfKind(<<"v">>)) |-> EntryV(OfKind(<<"v">>)[k])]
        /\ result.data.normals =
              [k \in 1..Len(OfKind(<<"v", "n">>)) |-> EntryVn(OfKind(<<"v", "n">>)[k])]
        /\ result.data.texcoords =
              [k \in 1..Len(OfKind(<<"v", "t">>)) |-> EntryVt(OfKind(<<"v", "t">>)[k])]
        /\ result.data.faces =
              [k \in 1..Len(OfKind(<<"f">>)) |-> EntryF(OfKind(<<"f">>)[k])]

\* a successful load of a comment, then two different `v` lines
C1_Witness ==
    /\ result.tag = "Ok"
    /\ Len(consumed) = 3
    /\ KindOf(consumed[1]) = <<"#">>
    /\ KindOf(consumed[2]) = <<"v">>
    /\ KindOf(consumed[3]) = <<"v">>
    /\ Len(result.data.vertices) = 2
    /\ result.data.vertices[1] # result.data.vertices[2]

-----------------------------------------------------------------------------
(* C2 *)

\* C2: an InvalidLine, WrongNumberOfArguments or Parse error carries the
\* zero-based index of the failing line, every line handed out before it
\* (comments and s / o lines included) counting once.
C2_ErrorCarriesLineIndex ==
    result.tag \in LineErrors =>
        /\ result.nb = Len(consumed) - 1
        /\ result.nb = nb

\* an error on the third line, after a comment and an `s` line
C2_Witness ==
    /\ result.tag \in LineErrors
    /\ Len(consumed) = 3
    /\ KindOf(consumed[1]) = <<"#">>
    /\ KindOf(consumed[2]) = <<"s">>
    /\ result.nb = 2

-----------------------------------------------------------------------------
(* C3 *)

\* what holds of every state in which load has failed
C3_FailedState ==
    /\ lastRead = "Err" => result = Io
    /\ result.tag = "Ok" => lastRead = "Eof"
    /\ Failed =>
          /\ pc = "done"
          /\ "data" \notin DOMAIN result
          /\ result.tag = "Io" => DOMAIN result = {"tag"}
          /\ result.tag \in LineErrors => Len(consumed) = result.nb + 1

\* C3: the first error (of a line, or of the line source) ends the load at
\* once: the result is the error alone, without a document (and without a
\* line number for an I/O failure), the failing line is the last one read,
\* and load takes no step after it has returned.
C3_FailFast ==
    /\ []C3_FailedState
    /\ [][(result'.tag \in LineErrors /\ ~Failed) => (pc = "body" /\ pc' = "done")]_vars
    /\ [][pc = "done" => UNCHANGED vars]_vars

\* a load that failed on its second line, the first having added a vertex
C3_Witness ==
    /\ result.tag \in LineErrors
    /\ pc = "done"
    /\ Len(consumed) = 2
    /\ Len(data.vertices) = 1
    /\ DOMAIN result = {"tag", "nb"}

\* a load that failed on a read of the line source after one line
C3_WitnessIo ==
    /\ result = Io
    /\ lastRead = "Err"
    /\ Len(consumed) = 1

-----------------------------------------------------------------------------
(* C4 *)

\* the line in buf is a v / vn / vt line all of whose arguments are floats
C4_Case ==
    /\ pc = "body"
    /\ buf[1] # "#"
    /\ KindOf(buf) \in FloatKeywords
    /\ AllFloats(buf)

\* C4: for a v / vn / vt line whose arguments are all floats the argument
\* count alone decides: v takes 3 (w = 1.0) or 4, vn takes 3, vt takes 2
\* (third component 0.0) or 3, the entry being appended to the keyword's
\* sequence; any other count appends nothing and fails with
\* WrongNumberOfArguments at that line.
C4_FloatLineByCount ==
    [][C4_Case =>
        LET kw == KindOf(buf)
            a == FloatsOf(buf)
            n == Len(a)
        IN  CASE kw = <<"v">> /\ n = 3 ->
                   /\ data' = [data EXCEPT !.vertices = Append(@, <<a[1], a[2], a[3], F32(1, 0)>>)]
                   /\ result' = result
              [] kw = <<"v">> /\ n = 4 ->
                   /\ data' = [data EXCEPT !.vertices = Append(@, <<a[1], a[2], a[3], a[4]>>)]
                   /\ result' = result
              [] kw = <<"v", "n">> /\ n = 3 ->
                   /\ data' = [data EXCEPT !.normals = Append(@, <<a[1], a[2], a[3]>>)]
                   /\ result' = result
              [] kw = <<"v", "t">> /\ n = 2 ->
                   /\ data' = [data EXCEPT !.texcoords = Append(@, <<a[1], a[2], F32(0, 0)>>)]
                   /\ result' = result
              [] kw = <<"v", "t">> /\ n = 3 ->
                   /\ data' = [data EXCEPT !.texcoords = Append(@, <<a[1], a[2], a[3]>>)]
                   /\ result' = result
              [] OTHER ->
                   /\ data' = data
                   /\ result' = WrongNumberOfArguments(nb)
    ]_vars

\* `v 1 -2 3.5` has been read as the vertex (1, -2, 3.5, 1.0)
C4_Witness ==
    /\ pc = "read"
    /\ Len(consumed) >= 1
    /\ LastLine = Ln(<<<<"v">>, <<"1">>, <<"-", "2">>, <<"3", ".", "5">>>>)
    /\ Len(data.vertices) >= 1
    /\ data.vertices[Len(data.vertices)] = <<F32(1, 0), F32(0 - 2, 0), F32(35, 1), F32(1, 0)>>

-----------------------------------------------------------------------------
(* C5, C6, C10: the `f` arm *)

\* the line in buf is an `f` line
FLine == pc = "body" /\ buf[1] # "#" /\ KindOf(buf) = <<"f">>

\* the i-th argument token of the line in buf
Tok(i) == Args(buf)[i]

NTok == Len(Args(buf))

\* the line in buf fails here, with one of the two errors of a face token
FailsAsFace ==
    /\ result' \in {WrongNumberOfArguments(nb), Parse(nb)}
    /\ pc' = "done"
    /\ data' = data

\* C5 as stated: whatever stands before it on the line, a token without
\* exactly 3 fields makes the load fail with WrongNumberOfArguments.
C5_Original ==
    [][(FLine /\ \E i \in 1..NTok : FieldCount(Tok(i)) # 3)
          => result' = WrongNumberOfArguments(nb)]_vars

\* C5, amended: a face token without exactly 3 slash-delimited fields (1, 2,
\* 4 or more) makes the load fail at that line, so only the forms with two
\* slashes are accepted; the error is WrongNumberOfArguments unless an
\* earlier token of the line has 3 fields and a first field that is no
\* unsigned integer (then that token's Parse error is the one reported).
C5_FieldCountOfFirstBadToken ==
    [][FLine =>
         /\ (\E i \in 1..NTok : FieldCount(Tok(i)) # 3) => FailsAsFace
         /\ (\E i \in 1..NTok : /\ FieldCount(Tok(i)) # 3
                                /\ \A j \in 1..(i - 1) : ValidRef(Tok(j)))
               => result' = WrongNumberOfArguments(nb)
         /\ (pc' = "read") => \A i \in 1..NTok : FieldCount(Tok(i)) = 3
    ]_vars

\* `f 1/2` (the form v/vt) was refused with WrongNumberOfArguments
C5_Witness ==
    /\ Len(consumed) >= 1
    /\ LastLine = Ln(<<<<"f">>, <<"1", "/", "2">>>>)
    /\ result = WrongNumberOfArguments(Len(consumed) - 1)

\* what C6 says of the tokens that are accepted, and its three examples
C6_Accepted ==
    /\ (\A i \in 1..NTok : ValidRef(Tok(i))) =>
          /\ result' = result
          /\ Len(data'.faces) = Len(data.faces) + 1
          /\ \A i \in 1..NTok : data'.faces[Len(data'.faces)][i] = RefOf(Tok(i))
    /\ buf = Ln(<<<<"f">>, <<"2", "/", "/", "1">>, <<"4", "/", "/", "1">>, <<"1", "/", "/", "1">>>>)
          => data'.faces = Append(data.faces, << <<2, None, Some(1)>>,
                                                 <<4, None, Some(1)>>,
                                                 <<1, None, Some(1)>> >>)
    /\ buf = Ln(<<<<"f">>, <<"1", "/", "2", "/", "3">>>>)
          => data'.faces = Append(data.faces, << <<1, Some(2), Some(3)>> >>)
    /\ buf = Ln(<<<<"f">>, <<"1", "/", "a", "/">>, <<"3", "/", "/", "-", "1">>>>)
          => data'.faces = Append(data.faces, << <<1, None, None>>, <<3, None, None>> >>)
    /\ buf = Ln(<<<<"f">>, <<"a", "/", "1", "/", "1">>>>)
          => result' = Parse(nb)

\* the token has 3 fields, the first of which is no unsigned integer
BadIndex(tok) == FieldCount(tok) = 3 /\ ~ParseUsize(Split(tok, "/")[1]).ok

\* C6 as stated: whatever stands before it on the line, a 3-field token
\* whose field 0 is no unsigned integer makes the load fail with Parse.
C6_Original ==
    [][FLine =>
         /\ (\E i \in 1..NTok : BadIndex(Tok(i))) => result' = Parse(nb)
         /\ C6_Accepted
    ]_vars

\* C6, amended: a face token with exactly 3 fields whose field 0 is no
\* unsigned integer makes the load fail at that line, with Parse unless an
\* earlier token of the line has a field count other than 3 (then that
\* token's WrongNumberOfArguments is the one reported); otherwise the token
\* stands for (v, vt, vn), v being field 0 as written and vt / vn being
\* Some(n) when field 1 / 2 spells the unsigned integer n and None when it is
\* empty or spells none, which is never an error.
C6_VertexReference ==
    [][FLine =>
         /\ (\E i \in 1..NTok : BadIndex(Tok(i))) => FailsAsFace
         /\ (\E i \in 1..NTok : /\ BadIndex(Tok(i))
                                /\ \A j \in 1..(i - 1) : ValidRef(Tok(j)))
               => result' = Parse(nb)
         /\ C6_Accepted
    ]_vars

\* `f 1/a/ 3//-1` was accepted, its bad optional fields read as None
C6_Witness ==
    /\ pc = "read"
    /\ Len(consumed) >= 1
    /\ LastLine = Ln(<<<<"f">>, <<"1", "/", "a", "/">>, <<"3", "/", "/", "-", "1">>>>)
    /\ Len(data.faces) >= 1
    /\ data.faces[Len(data.faces)] = << <<1, None, None>>, <<3, None, None>> >>

\* C10: an `f` line all of whose tokens are valid appends exactly one face
\* record, with one reference per token in token order, whatever the number
\* of tokens (an `f` line without arguments appends an empty record); an `f`
\* line with an invalid token appends none.
C10_OneFacePerLine ==
    [][FLine =>
         IF \A i \in 1..NTok : ValidRef(Tok(i))
         THEN /\ data' = [data EXCEPT !.faces = Append(@, EntryF(buf))]
              /\ Len(data'.faces[Len(data'.faces)]) = NTok
              /\ result' = result
              /\ pc' = "read"
         ELSE /\ data' = data
              /\ result'.tag \in LineErrors
    ]_vars

\* `f` alone was accepted and appended an empty face record
C10_Witness ==
    /\ pc = "read"
    /\ Len(consumed) >= 1
    /\ LastLine = Ln(<<<<"f">>>>)
    /\ Len(data.faces) >= 1
    /\ data.faces[Len(data.faces)] = <<>>

-----------------------------------------------------------------------------
(* C7 *)

\* C7: a line whose first character is '#', and a line whose first token is
\* s or o, is accepted whatever follows on it: the four sequences stay as
\* they are, no error is raised, nb advances by one and the load goes on to
\* read the next line into an empty buf.
C7_IgnoredLines ==
    [][(pc = "body" /\ (buf[1] = "#" \/ KindOf(buf) \in {<<"s">>, <<"o">>}))
          => /\ data' = data
             /\ result' = result
             /\ nb' = nb + 1
             /\ pc' = "read"
             /\ buf' = <<>>
    ]_vars

\* `#g`, `s off` and `o a/b 1` were each accepted and nothing was stored
C7_Witness ==
    /\ pc = "read"
    /\ nb = 3
    /\ consumed = << Ln(<<<<"#", "g">>>>),
                     Ln(<<<<"s">>, <<"o", "f", "f">>>>),
                     Ln(<<<<"o">>, <<"a", "/", "b">>, <<"1">>>>) >>
    /\ data = new
    /\ ~Failed

-----------------------------------------------------------------------------
(* C8 *)

IsPrefix(a, b) == Len(a) <= Len(b) /\ SubSeq(b, 1, Len(a)) = a

Total(d) == Len(d.vertices) + Len(d.normals) + Len(d.texcoords) + Len(d.faces)

\* one step keeps what is stored and appends at most one entry, to the
\* sequence of the keyword of the line in buf
C8_Step ==
    /\ IsPrefix(data.vertices, data'.vertices)
    /\ IsPrefix(data.normals, data'.normals)
    /\ IsPrefix(data.texcoords, data'.texcoords)
    /\ IsPrefix(data.faces, data'.faces)
    /\ Total(data') <= Total(data) + 1
    /\ data'.vertices # data.vertices => pc = "body" /\ KindOf(buf) = <<"v">>
    /\ data'.normals # data.normals => pc = "body" /\ KindOf(buf) = <<"v", "n">>
    /\ data'.texcoords # data.texcoords => pc = "body" /\ KindOf(buf) = <<"v", "t">>
    /\ data'.faces # data.faces => pc = "body" /\ KindOf(buf) = <<"f">>

\* C8: the document starts with its four sequences empty and is append-only:
\* after any line each sequence's previous contents are a prefix of its new
\* contents, a line appends at most one entry in all, and only to the
\* sequence of its keyword.
C8_AppendOnly ==
    /\ data = [vertices |-> <<>>, normals |-> <<>>, texcoords |-> <<>>, faces |-> <<>>]
    /\ [][C8_Step]_vars

\* a second, different vertex was appended behind the first
C8_Witness ==
    /\ Len(data.vertices) = 2
    /\ data.vertices[1] # data.vertices[2]
    /\ data.vertices[1] = EntryV(OfKind(<<"v">>)[1])
    /\ Len(data.faces) = 1

-----------------------------------------------------------------------------
(* C9 *)

\* C9: a line that does not start with '#' and whose first token is none of
\* v, vn, vt, f, s, o fails with InvalidLine at that line; so does a line
\* without any token (a bare terminator, whitespace only) and a line whose
\* '#' comes after whitespace.
C9_InvalidDirective ==
    [][(pc = "body" /\ buf[1] # "#" /\ KindOf(buf) \notin Keywords)
          => /\ result' = InvalidLine(nb)
             /\ pc' = "done"
             /\ data' = data
    ]_vars

\* an empty second line made the load fail with InvalidLine(1)
C9_Witness ==
    /\ Len(consumed) = 2
    /\ consumed[2] = <<"\n">>
    /\ result = InvalidLine(1)

\* a line whose '#' follows a space made the load fail with InvalidLine
C9_WitnessIndentedComment ==
    /\ Len(consumed) >= 1
    /\ LastLine = <<" ", "#", " ", "c", "\n">>
    /\ result = InvalidLine(Len(consumed) - 1)

=============================================================================
